---- MODULE Spec2Model ----
(***************************************************************************)
(* Model of src/monitor.py: the per-target health state machine            *)
(* (SystemMonitor.check_target), the tick scheduler (run_checks, start)    *)
(* the notifier calls they make and the command listener                   *)
(* (TelegramCommandHandler).  One action is one resumption of a coroutine: *)
(* the code that runs between two awaits is atomic, because asyncio tasks  *)
(* are cooperative.  Spec follows the scheduler alone, SpecAll follows it  *)
(* together with the listener and an external cancellation, SpecReport     *)
(* follows status reports over four targets.                               *)
(***************************************************************************)
EXTENDS Integers, Sequences, FiniteSets, TLC

\* ----------------------------------------------------------------- bounds
MaxTicks == 3      \* ticks followed when the registry holds both targets
MaxTicksOne == 4   \* ticks followed when the registry holds a single target
MaxPasses == 1     \* TIMEOUT-long stretches of time that pass inside ticks
MaxTicksListen == 2 \* ticks followed when the command listener is followed too
MaxUpdates == 1    \* updates the bot receives

\* ------------------------------------------------------ program constants
CHECK_INTERVAL == 30
RETRY_INTERVAL == 10
TIMEOUT == 10
CONSECUTIVE_FAILURES == 2
ALERT_ON_RECOVERY == TRUE

NoneTime == -1     \* Optional[datetime] = None

\* The targets _init_targets can put in the registry: a ping target and an
\* HTTP target.
TargetNames == {"A", "B"}

\* The registries followed: the ping target alone, or both targets.
Registries == {{"A"}, TargetNames}

\* The registry the status reports are followed for.
ReportNames == {"A", "B", "C", "D"}

\* Target names in the order Python compares strings.
Alphabet == <<"A", "B", "C", "D">>

NameRank(n) == CHOOSE i \in 1..Len(Alphabet) : Alphabet[i] = n

\* CONFIG["TELEGRAM_CHAT_ID"]
TELEGRAM_CHAT_ID == "me"

TargetType(n) == IF n = "A" THEN "Server (Ping)" ELSE "HTTP/HTTPS"

\* Target dataclass after construction.
NewTarget(n) ==
    [type |-> TargetType(n), status |-> "UNKNOWN", last_check |-> NoneTime,
     last_status_change |-> NoneTime, consecutive_failures |-> 0,
     response_time |-> 0, error_message |-> ""]

VARIABLES
    RUN_ONCE,   \* CONFIG["RUN_ONCE"]
    registry,   \* the names of the targets in SystemMonitor.targets
    pc,         \* where SystemMonitor.start is suspended
    now,        \* datetime.now(), in seconds
    tick_start, \* time at which the current run_checks was called
    ticks,      \* number of run_checks calls made
    targets,    \* SystemMonitor.targets, by name
    tasks,      \* the check_target coroutines handed to asyncio.gather
    outcomes,   \* per target: is_up of every probe result applied
    events,     \* per target: alert sent ("-" for none) at every applied probe
    probes,     \* per target: number of check_target calls started
    passes,     \* number of Pass steps taken
    reports,    \* number of send_status_report calls made
    target_list,    \* SystemMonitor.targets: the names in list order
    last_report,    \* the lines of the last status report: name and status
    lpc,            \* where TelegramCommandHandler.listen is suspended
    last_update_id, \* TelegramCommandHandler.last_update_id
    updates,        \* the updates the bot has received; the id is the index
    batch,          \* the updates left in the for loop of listen
    replies,        \* the notifier calls made by handle_command
    handled         \* the ids of the updates the for loop of listen has taken

\* The listener's own state.
lvars == <<lpc, last_update_id, updates, batch, replies, handled>>

vars == <<RUN_ONCE, registry, pc, now, tick_start, ticks, targets, tasks, outcomes,
          events, probes, passes, reports, target_list, last_report, lvars>>

Active == {"probe", "alert"}
Finished == {"done", "raised"}

\* ------------------------------------------------------------- the probes
\* What check_ping / check_http can return after `elapsed` seconds: success,
\* the prober's own failure, an exception it catches (str(e)), a timeout.
ProbeResults(type, elapsed) ==
    LET ok == {[is_up |-> TRUE, response_time |-> elapsed * 1000, error_msg |-> ""]}
        timeout == IF elapsed >= TIMEOUT
                   THEN {[is_up |-> FALSE, response_time |-> 0,
                          error_msg |-> IF type = "Server (Ping)"
                                        THEN "Ping timeout" ELSE "HTTP timeout"]}
                   ELSE {}
        bad == IF type = "Server (Ping)"
               THEN {[is_up |-> FALSE, response_time |-> 0,
                      error_msg |-> "Host unreachable"]}
               ELSE {[is_up |-> FALSE, response_time |-> elapsed * 1000,
                      error_msg |-> "HTTP 500"]}
        caught == {[is_up |-> FALSE, response_time |-> 0, error_msg |-> "str(e)"]}
    IN  ok \cup bad \cup caught \cup timeout

\* ------------------------------------------------- the health state machine
\* check_target, is_up branch (previous_status is tg.status).
OnSuccess_NoReset(tg, t) ==
    IF tg.status = "DOWN"
    THEN [target |-> [tg EXCEPT !.status = "UP", !.last_status_change = t],
          alert |-> IF ALERT_ON_RECOVERY THEN "Recovered" ELSE "-"]
    ELSE [target |-> [tg EXCEPT !.status = "UP"], alert |-> "-"]

OnSuccess_NoElse(tg, t) ==
    LET t1 == [tg EXCEPT !.consecutive_failures = 0]
    IN  IF tg.status = "DOWN"
        THEN [target |-> [t1 EXCEPT !.status = "UP", !.last_status_change = t],
              alert |-> IF ALERT_ON_RECOVERY THEN "Recovered" ELSE "-"]
        ELSE [target |-> t1, alert |-> "-"]

OnSuccess_AlwaysStamp(tg, t) ==
    LET t1 == [tg EXCEPT !.consecutive_failures = 0,
                         !.status = "UP", !.last_status_change = t]
    IN  IF tg.status = "DOWN"
        THEN [target |-> t1,
              alert |-> IF ALERT_ON_RECOVERY THEN "Recovered" ELSE "-"]
        ELSE [target |-> t1, alert |-> "-"]

OnSuccess_AlertOnCounter(tg, t) ==
    LET t1 == [tg EXCEPT !.consecutive_failures = 0, !.status = "UP"]
    IN  IF tg.status = "DOWN"
        THEN [target |-> [t1 EXCEPT !.last_status_change = t],
              alert |-> IF ALERT_ON_RECOVERY THEN "Recovered" ELSE "-"]
        ELSE [target |-> t1,
              alert |-> IF tg.consecutive_failures > 0 THEN "Recovered" ELSE "-"]

OnSuccess(tg, t) ==
    LET t1 == [tg EXCEPT !.consecutive_failures = 0]
    IN  IF tg.status = "DOWN"
        THEN [target |-> [t1 EXCEPT !.status = "UP", !.last_status_change = t],
              alert |-> IF ALERT_ON_RECOVERY THEN "Recovered" ELSE "-"]
        ELSE [target |-> [t1 EXCEPT !.status = "UP"], alert |-> "-"]

\* check_target, else branch.
OnFailure_OffByOne(tg, t) ==
    LET t1 == [tg EXCEPT !.consecutive_failures = @ + 1]
    IN  IF t1.consecutive_failures >= CONSECUTIVE_FAILURES - 1 /\ tg.status # "DOWN"
        THEN [target |-> [t1 EXCEPT !.status = "DOWN", !.last_status_change = t],
              alert |-> "WentDown"]
        ELSE [target |-> t1, alert |-> "-"]

OnFailure_NoPreviousCheck(tg, t) ==
    LET t1 == [tg EXCEPT !.consecutive_failures = @ + 1]
    IN  IF t1.consecutive_failures >= CONSECUTIVE_FAILURES
        THEN [target |-> [t1 EXCEPT !.status = "DOWN", !.last_status_change = t],
              alert |-> "WentDown"]
        ELSE [target |-> t1, alert |-> "-"]

OnFailure(tg, t) ==
    LET t1 == [tg EXCEPT !.consecutive_failures = @ + 1]
    IN  IF t1.consecutive_failures >= CONSECUTIVE_FAILURES /\ tg.status # "DOWN"
        THEN [target |-> [t1 EXCEPT !.status = "DOWN", !.last_status_change = t],
              alert |-> "WentDown"]
        ELSE [target |-> t1, alert |-> "-"]

\* check_target from the return of the probe up to the next await.
check_target_apply(tg, res, t) ==
    LET base == [tg EXCEPT !.last_check = t,
                           !.response_time = res.response_time,
                           !.error_message = res.error_msg]
    IN  IF res.is_up THEN OnSuccess(base, t) ELSE OnFailure(base, t)

\* The downtime send_alert puts in the message (NoneTime: no downtime line).
\* tg is the target as send_alert sees it, i.e. after check_target's update.
send_alert_downtime(tg, is_down, t) ==
    IF tg.last_status_change # NoneTime /\ ~is_down
    THEN t - tg.last_status_change
    ELSE NoneTime

\* --------------------------------------------------------- the status report
\* send_status_report: sorted(targets, key=lambda x: (x.status != DOWN, x.name)).
\* KeyLess is the order of the keys of a and b.
KeyLess_NameOnly(tgs, a, b) == NameRank(a) < NameRank(b)

KeyLess(tgs, a, b) ==
    \/ tgs[a].status = "DOWN" /\ tgs[b].status # "DOWN"
    \/ /\ (tgs[a].status = "DOWN") = (tgs[b].status = "DOWN")
       /\ NameRank(a) < NameRank(b)

\* sorted() is stable: x goes after the elements whose key is not greater.
RECURSIVE InsertSorted(_, _, _)
InsertSorted(tgs, x, q) ==
    IF q = <<>> THEN <<x>>
    ELSE IF KeyLess(tgs, x, Head(q)) THEN <<x>> \o q
    ELSE <<Head(q)>> \o InsertSorted(tgs, x, Tail(q))

RECURSIVE sorted(_, _)
sorted(tgs, list) ==
    IF list = <<>> THEN <<>>
    ELSE InsertSorted(tgs, list[Len(list)],
                      sorted(tgs, SubSeq(list, 1, Len(list) - 1)))

\* The lines of the report, up to the await of send_message.
send_status_report(tgs, list) ==
    LET order == sorted(tgs, list)
    IN  [i \in 1..Len(order) |->
            [name |-> order[i], status |-> tgs[order[i]].status]]

\* What send_status_report leaves in the registry: it only reads it.
targets_after_report_Clears(tgs) ==
    [n \in DOMAIN tgs |-> [tgs[n] EXCEPT !.error_message = ""]]

targets_after_report(tgs) == tgs

\* ------------------------------------------------------------ the scheduler
\* asyncio.gather(*tasks, return_exceptions=True): resolves when every
\* awaitable has finished, and hands exceptions back as results.
gather_done_FirstCompleted(ts) == \E k \in ts : k.pc \in Finished

gather_done_OnlyResults(ts) == \A k \in ts : k.pc = "done"

gather_done_AlertsDetached(ts) == \A k \in ts : k.pc # "probe"

gather_done(ts) == \A k \in ts : k.pc \in Finished

gather_raises_Propagate(ts) == \E k \in ts : k.pc = "raised"

gather_raises(ts) == FALSE

\* start(): down_services = [t for t in self.targets if t.status == DOWN]
down_services_NotUp(tgs) == {n \in DOMAIN tgs : tgs[n].status # "UP"}

down_services(tgs) == {n \in DOMAIN tgs : tgs[n].status = "DOWN"}

\* The coroutine check_target(target), suspended in its probe.
NewTask(n, id, t) ==
    [tgt |-> n, tick |-> id, start |-> t, pc |-> "probe", is_up |-> "pending",
     alert |-> "-", at |-> NoneTime, prior_change |-> NoneTime,
     downtime |-> NoneTime, delivered |-> "n/a"]

\* run_checks up to its await: the tasks of earlier ticks that have finished
\* are gone, a task is created for every target.
run_checks(t) ==
    /\ ticks' = ticks + 1
    /\ tick_start' = t
    /\ tasks' = {k \in tasks : k.pc \in Active}
                \cup {NewTask(n, ticks + 1, t) : n \in registry}
    /\ probes' = [n \in registry |-> probes[n] + 1]
    /\ pc' = "gather"

\* The list _init_targets builds: servers first, then websites.
ListOf(reg) == IF reg = {"A"} THEN <<"A">> ELSE <<"A", "B">>

\* The scheduler followed alone: run-once mode, or continuous mode with no
\* command arriving.
Init ==
    /\ RUN_ONCE \in BOOLEAN
    /\ registry \in Registries
    /\ pc = "start"
    /\ now = 0
    /\ tick_start = 0
    /\ ticks = 0
    /\ targets = [n \in registry |-> NewTarget(n)]
    /\ tasks = {}
    /\ outcomes = [n \in registry |-> <<>>]
    /\ events = [n \in registry |-> <<>>]
    /\ probes = [n \in registry |-> 0]
    /\ passes = 0
    /\ reports = 0
    /\ target_list = ListOf(registry)
    /\ last_report = <<>>
    /\ lpc = "off"
    /\ last_update_id = 0
    /\ updates = <<>>
    /\ batch = <<>>
    /\ replies = <<>>
    /\ handled = <<>>

\* start() up to its first await.
start ==
    /\ pc = "start"
    /\ IF RUN_ONCE
       THEN run_checks(now)
       ELSE /\ pc' = "startup"
            /\ UNCHANGED <<ticks, tick_start, tasks, probes>>
    /\ UNCHANGED <<lvars, target_list, last_report, RUN_ONCE, registry, now, targets, outcomes, events, passes, reports>>

\* A notifier call awaited by start() returns: the start-up message (the
\* loop is entered and the first tick begins) or the run-once report.
main_send_returns ==
    /\ pc \in {"startup", "report"}
    /\ IF pc = "startup"
       THEN run_checks(now)
       ELSE /\ pc' = "returned"
            /\ UNCHANGED <<ticks, tick_start, tasks, probes>>
    /\ UNCHANGED <<lvars, target_list, last_report, RUN_ONCE, registry, now, targets, outcomes, events, passes, reports>>

\* The probe awaited by a check_target returns res; the state machine is
\* applied and, on a transition, send_alert runs up to its send_message.
probe_returns(k, res) ==
    /\ k \in tasks
    /\ k.pc = "probe"
    /\ LET r == check_target_apply(targets[k.tgt], res, now)
           k2 == [k EXCEPT
                    !.is_up = IF res.is_up THEN "yes" ELSE "no",
                    !.alert = r.alert,
                    !.at = now,
                    !.prior_change = targets[k.tgt].last_status_change,
                    !.downtime = IF r.alert = "-" THEN NoneTime
                                 ELSE send_alert_downtime(r.target,
                                                          r.alert = "WentDown", now),
                    !.delivered = IF r.alert = "-" THEN "n/a" ELSE "pending",
                    !.pc = IF r.alert = "-" THEN "done" ELSE "alert"]
       IN  /\ targets' = [targets EXCEPT ![k.tgt] = r.target]
           /\ tasks' = (tasks \ {k}) \cup {k2}
           /\ outcomes' = [outcomes EXCEPT ![k.tgt] = Append(@, res.is_up)]
           /\ events' = [events EXCEPT ![k.tgt] = Append(@, r.alert)]
    /\ UNCHANGED <<lvars, target_list, last_report, RUN_ONCE, registry, pc, now, tick_start, ticks, probes, passes, reports>>

\* An exception leaves check_target at its probe: nothing is applied.
probe_raises(k) ==
    /\ k \in tasks
    /\ k.pc = "probe"
    /\ tasks' = (tasks \ {k}) \cup {[k EXCEPT !.pc = "raised"]}
    /\ UNCHANGED <<lvars, target_list, last_report, RUN_ONCE, registry, pc, now, tick_start, ticks, targets, outcomes,
                   events, probes, passes, reports>>

\* send_message awaited by send_alert returns True or False.
alert_returns_Rollback(k, ok) ==
    /\ k \in tasks
    /\ k.pc = "alert"
    /\ tasks' = (tasks \ {k}) \cup
                {[k EXCEPT !.pc = "done",
                           !.delivered = IF ok THEN "yes" ELSE "no"]}
    /\ targets' = IF ok THEN targets
                  ELSE [targets EXCEPT ![k.tgt].status =
                           IF k.alert = "WentDown" THEN "UP" ELSE "DOWN"]
    /\ UNCHANGED <<lvars, target_list, last_report, RUN_ONCE, registry, pc, now, tick_start, ticks, outcomes,
                   events, probes, passes, reports>>

alert_returns(k, ok) ==
    /\ k \in tasks
    /\ k.pc = "alert"
    /\ tasks' = (tasks \ {k}) \cup
                {[k EXCEPT !.pc = "done",
                           !.delivered = IF ok THEN "yes" ELSE "no"]}
    /\ UNCHANGED <<lvars, target_list, last_report, RUN_ONCE, registry, pc, now, tick_start, ticks, targets, outcomes,
                   events, probes, passes, reports>>

\* Time passes while a tick is in flight; a probe does not outlive TIMEOUT.
Pass ==
    /\ \E k \in tasks : k.pc \in Active
    /\ \A k \in tasks : k.pc = "probe" => now - k.start < TIMEOUT
    /\ passes < MaxPasses
    /\ passes' = passes + 1
    /\ now' = now + TIMEOUT
    /\ UNCHANGED <<lvars, target_list, last_report, RUN_ONCE, registry, pc, tick_start, ticks, targets, tasks, outcomes,
                   events, probes, reports>>

\* The awaitables of the gather in progress.
TickTasks == {k \in tasks : k.tick = ticks}

\* The gather awaited by run_checks resolves and start() runs on to its
\* next await.
gather_returns ==
    /\ pc = "gather"
    /\ gather_done(TickTasks) \/ gather_raises(TickTasks)
    /\ IF gather_raises(TickTasks)
       THEN /\ pc' = IF RUN_ONCE THEN "raised" ELSE "retry"
            /\ UNCHANGED reports
       ELSE IF RUN_ONCE
            THEN IF down_services(targets) # {}
                 THEN /\ reports' = reports + 1
                      /\ pc' = "report"
                 ELSE /\ pc' = "returned"
                      /\ UNCHANGED reports
            ELSE /\ pc' = "sleep"
                 /\ UNCHANGED reports
    /\ last_report' = IF pc' = "report"
                      THEN send_status_report(targets, target_list)
                      ELSE last_report
    /\ UNCHANGED <<lvars, target_list, RUN_ONCE, registry, now, tick_start, ticks, targets, tasks, outcomes,
                   events, probes, passes>>

\* The number of ticks the loop is followed for.
TickBound ==
    IF lpc # "off" THEN MaxTicksListen
    ELSE IF Cardinality(registry) = 1 THEN MaxTicksOne ELSE MaxTicks

\* The time at which the sleep of the loop ends: it is started at time t,
\* when the tick that began at t0 has completed (p = "sleep") or has raised
\* (p = "retry").
wake_time_FromTickStart(p, t0, t) ==
    IF p = "sleep"
    THEN IF t0 + CHECK_INTERVAL > t THEN t0 + CHECK_INTERVAL ELSE t
    ELSE t + RETRY_INTERVAL

wake_time(p, t0, t) ==
    t + (IF p = "sleep" THEN CHECK_INTERVAL ELSE RETRY_INTERVAL)

\* asyncio.sleep(CHECK_INTERVAL) or, in the except branch,
\* asyncio.sleep(RETRY_INTERVAL) returns and the loop calls run_checks again.
sleep_returns ==
    /\ pc \in {"sleep", "retry"}
    /\ ticks < TickBound
    /\ now' = wake_time(pc, tick_start, now)
    /\ run_checks(now')
    /\ UNCHANGED <<lvars, target_list, last_report, RUN_ONCE, registry, targets, outcomes, events, passes, reports>>

Next ==
    \/ start
    \/ main_send_returns
    \/ \E k \in tasks :
          \E res \in ProbeResults(targets[k.tgt].type, now - k.start) :
             probe_returns(k, res)
    \/ \E k \in tasks : probe_raises(k)
    \/ \E k \in tasks, ok \in BOOLEAN : alert_returns(k, ok)
    \/ Pass
    \/ gather_returns
    \/ sleep_returns

Spec == Init /\ [][Next]_vars

\* The event loop runs every task that is ready, and every probe, notifier
\* call and sleep returns (each has a timeout or a fixed duration).
\* Followed for the registry of a single target.
InitOne == Init /\ registry = {"A"}

FairSpec == InitOne /\ [][Next]_vars /\ WF_vars(Next)

\* ------------------------------------------------------ the command listener
\* The texts a message can carry, and text.lower().strip().
Texts == {" /STATUS ", "help", "ciao"}

lower_strip(text) == IF text = " /STATUS " THEN "/status" ELSE text

\* The updates getUpdates can deliver: a message of a chat with a text, an
\* update without a "message" key, or a message without a "chat" key, for
\* which message["chat"] raises KeyError.
UpdateKinds ==
    {[kind |-> "other", chat |-> "", text |-> ""],
     [kind |-> "nochat", chat |-> "", text |-> ""]}
    \cup {[kind |-> "message", chat |-> c, text |-> t] :
             c \in {TELEGRAM_CHAT_ID, "other"}, t \in Texts}

\* handle_command: the notifier call it makes for text, "none" for no call.
handle_command(text) ==
    IF lower_strip(text) \in {"/status", "/stato", "status", "stato"} THEN "report"
    ELSE IF lower_strip(text) \in {"/help", "/aiuto", "help"} THEN "help"
    ELSE "none"

\* listen, body of the for loop: the call made for update u.
Dispatch_AnyChat(u) ==
    IF u.kind = "message" THEN handle_command(u.text) ELSE "none"

Dispatch(u) ==
    IF u.kind = "message" /\ u.chat = TELEGRAM_CHAT_ID
    THEN handle_command(u.text)
    ELSE "none"

\* The offset parameter of the getUpdates request.
offset_Same(lid) == lid

offset(lid) == lid + 1

\* get_updates: the updates whose id is at least the offset, or [] when the
\* request fails.
get_updates(ok) ==
    IF ok
    THEN LET first == IF offset(last_update_id) < 1 THEN 1 ELSE offset(last_update_id)
         IN  [i \in 1..(Len(updates) - first + 1) |->
                 [id |-> first + i - 1, upd |-> updates[first + i - 1]]]
    ELSE <<>>

\* The for loop of listen over b, run up to its next await or to the
\* exception it raises: the last id assigned to last_update_id, the ids
\* taken, the call made ("none" when the loop has ended, "raise" when the
\* body has raised) and the updates left.
RECURSIVE RunLoop(_, _, _)
RunLoop(b, lid, taken) ==
    IF b = <<>> THEN [lid |-> lid, call |-> "none", rest |-> <<>>, taken |-> taken]
    ELSE IF Head(b).upd.kind = "nochat"
         THEN [lid |-> Head(b).id, call |-> "raise", rest |-> <<>>,
               taken |-> Append(taken, Head(b).id)]
    ELSE IF Dispatch(Head(b).upd) # "none"
         THEN [lid |-> Head(b).id, call |-> Dispatch(Head(b).upd), rest |-> Tail(b),
               taken |-> Append(taken, Head(b).id)]
         ELSE RunLoop(Tail(b), Head(b).id, Append(taken, Head(b).id))

\* listen resumes in its for loop with b left to handle.
listen_loop(b) ==
    LET r == RunLoop(b, last_update_id, <<>>)
    IN  /\ last_update_id' = r.lid
        /\ batch' = r.rest
        /\ handled' = handled \o r.taken
        /\ IF r.call = "none"
           THEN /\ lpc' = "sleep1"
                /\ UNCHANGED <<replies, reports, last_report, targets>>
           ELSE IF r.call = "raise"
           THEN /\ lpc' = "sleep5"
                /\ UNCHANGED <<replies, reports, last_report, targets>>
           ELSE /\ lpc' = "send"
                /\ replies' = Append(replies, [id |-> r.lid, kind |-> r.call])
                /\ IF r.call = "report"
                   THEN /\ reports' = reports + 1
                        /\ last_report' = send_status_report(targets, target_list)
                        /\ targets' = targets_after_report(targets)
                   ELSE UNCHANGED <<reports, last_report, targets>>

\* A user sends the bot an update.
user_sends(u) ==
    /\ lpc # "off"
    /\ Len(updates) < MaxUpdates
    /\ updates' = Append(updates, u)
    /\ UNCHANGED <<lpc, last_update_id, batch, replies, handled, reports, last_report,
                   targets, target_list, RUN_ONCE, registry, pc, now, tick_start,
                   ticks, tasks, outcomes, events, probes, passes>>

\* The getUpdates request awaited by get_updates returns.
get_updates_returns(ok) ==
    /\ lpc = "poll"
    /\ listen_loop(get_updates(ok))
    /\ UNCHANGED <<updates, target_list, RUN_ONCE, registry, pc, now, tick_start,
                   ticks, tasks, outcomes, events, probes, passes>>

\* The notifier call awaited by handle_command returns.
listener_send_returns ==
    /\ lpc = "send"
    /\ listen_loop(batch)
    /\ UNCHANGED <<updates, target_list, RUN_ONCE, registry, pc, now, tick_start,
                   ticks, tasks, outcomes, events, probes, passes>>

\* asyncio.sleep(1), or asyncio.sleep(5) in the except branch, returns.
listener_sleep_returns ==
    /\ lpc \in {"sleep1", "sleep5"}
    /\ lpc' = "poll"
    /\ UNCHANGED <<last_update_id, updates, batch, replies, handled, reports, last_report,
                   targets, target_list, RUN_ONCE, registry, pc, now, tick_start,
                   ticks, tasks, outcomes, events, probes, passes>>

\* ------------------------------------------------------------- cancellation
\* The check_target tasks after the gather of run_checks is cancelled: each
\* one still at an await gets CancelledError there.
cancel_tasks_Shielded(ts) == ts

cancel_tasks(ts) ==
    {IF k.pc \in Active THEN [k EXCEPT !.pc = "cancelled"] ELSE k : k \in ts}

\* The process is interrupted: asyncio cancels the tasks.  start() and the
\* check_target coroutines let CancelledError through (except Exception does
\* not catch it); the bare excepts of get_updates and listen swallow it,
\* but listen ends when it is cancelled in the sleep of its except branch.
cancel ==
    /\ lpc # "off"
    /\ pc \in {"startup", "gather", "sleep", "retry"}
    /\ pc' = "cancelled"
    /\ tasks' = cancel_tasks(tasks)
    /\ lpc' = IF lpc = "poll" THEN "sleep1"
              ELSE IF lpc = "sleep5" THEN "ended"
              ELSE "sleep5"
    /\ batch' = <<>>
    /\ UNCHANGED <<last_update_id, updates, replies, handled, reports, last_report,
                   targets, target_list, RUN_ONCE, registry, now, tick_start,
                   ticks, outcomes, events, probes, passes>>

\* Continuous mode as main() runs it: start() and listen() side by side, for
\* the registry of a single target.
InitAll ==
    /\ RUN_ONCE = FALSE
    /\ registry = {"A"}
    /\ pc = "start"
    /\ now = 0
    /\ tick_start = 0
    /\ ticks = 0
    /\ targets = [n \in registry |-> NewTarget(n)]
    /\ tasks = {}
    /\ outcomes = [n \in registry |-> <<>>]
    /\ events = [n \in registry |-> <<>>]
    /\ probes = [n \in registry |-> 0]
    /\ passes = 0
    /\ reports = 0
    /\ target_list = ListOf(registry)
    /\ last_report = <<>>
    /\ lpc = "poll"
    /\ last_update_id = 0
    /\ updates = <<>>
    /\ batch = <<>>
    /\ replies = <<>>
    /\ handled = <<>>

NextAll ==
    \/ Next
    \/ \E u \in UpdateKinds : user_sends(u)
    \/ \E ok \in BOOLEAN : get_updates_returns(ok)
    \/ listener_send_returns
    \/ listener_sleep_returns
    \/ cancel

SpecAll == InitAll /\ [][NextAll]_vars

\* A target of the report registry in a given status.
TargetIn(n, st) ==
    [NewTarget(n) EXCEPT
        !.status = st,
        !.consecutive_failures = IF st = "DOWN" THEN CONSECUTIVE_FAILURES ELSE 0,
        !.error_message = IF st = "DOWN" THEN "str(e)" ELSE ""]

\* The lists that hold every name of s once.
ListsOf(s) ==
    {q \in [1..Cardinality(s) -> s] : \A i, j \in 1..Cardinality(s) : i # j => q[i] # q[j]}

\* The loop asleep between two ticks, four targets in any statuses and any
\* list order, and a status command waiting at the bot.
InitReport ==
    /\ RUN_ONCE = FALSE
    /\ registry = ReportNames
    /\ pc = "sleep"
    /\ now = 0
    /\ tick_start = 0
    /\ ticks = 1
    /\ \E st \in [ReportNames -> {"UNKNOWN", "UP", "DOWN"}] :
          targets = [n \in ReportNames |-> TargetIn(n, st[n])]
    /\ tasks = {}
    /\ outcomes = [n \in registry |-> <<>>]
    /\ events = [n \in registry |-> <<>>]
    /\ probes = [n \in registry |-> 1]
    /\ passes = 0
    /\ reports = 0
    /\ target_list \in ListsOf(ReportNames)
    /\ last_report = <<>>
    /\ lpc = "poll"
    /\ last_update_id = 0
    /\ updates = <<[kind |-> "message", chat |-> TELEGRAM_CHAT_ID, text |-> " /STATUS "]>>
    /\ batch = <<>>
    /\ replies = <<>>
    /\ handled = <<>>

NextReport ==
    \/ \E ok \in BOOLEAN : get_updates_returns(ok)
    \/ listener_send_returns
    \/ listener_sleep_returns

SpecReport == InitReport /\ [][NextReport]_vars

TypeOK ==
    /\ pc \in {"start", "startup", "gather", "report", "sleep", "retry",
               "returned", "raised", "cancelled"}
    /\ lpc \in {"off", "poll", "send", "sleep1", "sleep5", "ended"}
    /\ last_update_id \in 0..Len(updates)
    /\ ticks \in 0..TickBound
    /\ registry = DOMAIN targets
    /\ \A n \in registry :
          /\ targets[n].status \in {"UNKNOWN", "UP", "DOWN"}
          /\ Len(outcomes[n]) = Len(events[n])

\* ------------------------------------------------------------------ claims
Last(q) == q[Len(q)]

\* A step in which check_target applies a probe result to target n.
Applied(n) == Len(outcomes'[n]) = Len(outcomes[n]) + 1

\* Length of the run of failed probes that ends at position i of outs.
RECURSIVE FailRun(_, _)
FailRun(outs, i) == IF i = 0 \/ outs[i] THEN 0 ELSE 1 + FailRun(outs, i - 1)

\* The reference trace of the alerts: the counter before probe i is the run of
\* failures ending at i-1, and the prior status is DOWN exactly when that run
\* has reached the threshold.
RefEvent(outs, i) ==
    IF ~outs[i]
    THEN IF /\ FailRun(outs, i) >= CONSECUTIVE_FAILURES
            /\ FailRun(outs, i - 1) < CONSECUTIVE_FAILURES
         THEN "WentDown" ELSE "-"
    ELSE IF FailRun(outs, i - 1) >= CONSECUTIVE_FAILURES
         THEN "Recovered" ELSE "-"

\* C1: in every state another task can observe (every state of the model is
\* a suspension point, alert deliveries included), a target that is DOWN has
\* consecutive_failures >= CONSECUTIVE_FAILURES.
C1_DownImpliesThreshold ==
    \A n \in registry :
        targets[n].status = "DOWN" =>
            targets[n].consecutive_failures >= CONSECUTIVE_FAILURES

\* A WentDown alert is being delivered for a DOWN target while the other
\* target's probe is still in flight.
C1_Witness ==
    \E k \in tasks, j \in tasks :
        /\ k.pc = "alert" /\ k.alert = "WentDown"
        /\ targets[k.tgt].status = "DOWN"
        /\ j.pc = "probe" /\ j.tgt # k.tgt

\* C2: the status changes to DOWN only at a failed probe that is at least the
\* threshold-th failure in a row, and every successful probe leaves
\* consecutive_failures = 0 and status = UP.
C2_Step(n) ==
    /\ (targets'[n].status = "DOWN" /\ targets[n].status # "DOWN") =>
          /\ Applied(n)
          /\ Len(outcomes'[n]) >= CONSECUTIVE_FAILURES
          /\ \A i \in (Len(outcomes'[n]) - CONSECUTIVE_FAILURES + 1)..Len(outcomes'[n]) :
                ~outcomes'[n][i]
    /\ (Applied(n) /\ Last(outcomes'[n])) =>
          /\ targets'[n].consecutive_failures = 0
          /\ targets'[n].status = "UP"

C2_DownOnlyAtThreshold == [][\A n \in registry : C2_Step(n)]_vars

\* A target went DOWN after a success had reset an earlier failure.
C2_Witness ==
    \E n \in registry :
        /\ Len(outcomes[n]) >= 4
        /\ SubSeq(outcomes[n], Len(outcomes[n]) - 3, Len(outcomes[n]))
              = <<FALSE, TRUE, FALSE, FALSE>>
        /\ targets[n].status = "DOWN"

\* C3: the alerts sent for a target are the reference trace of its probe
\* outcomes; [fail, fail, fail, ok] gives [-, WentDown, -, Recovered] and
\* [fail, ok, fail, fail] gives [-, -, -, WentDown].
C3_AlertTrace ==
    \A n \in registry :
        /\ Len(events[n]) = Len(outcomes[n])
        /\ \A i \in 1..Len(outcomes[n]) : events[n][i] = RefEvent(outcomes[n], i)
        /\ outcomes[n] = <<FALSE, FALSE, FALSE, TRUE>> =>
              events[n] = <<"-", "WentDown", "-", "Recovered">>
        /\ outcomes[n] = <<FALSE, TRUE, FALSE, FALSE>> =>
              events[n] = <<"-", "-", "-", "WentDown">>

C3_Witness ==
    \E n \in registry :
        /\ outcomes[n] = <<FALSE, FALSE, FALSE, TRUE>>
        /\ events[n] = <<"-", "WentDown", "-", "Recovered">>
        /\ \A k \in tasks : k.pc \in Finished

\* C4: the alerts of one target alternate between WentDown and Recovered, and
\* a stretch of failing probes carries at most one WentDown.
C4_AlertsAlternate ==
    \A n \in registry :
        LET a == SelectSeq(events[n], LAMBDA e : e # "-")
        IN  /\ \A i \in 1..(Len(a) - 1) : a[i] # a[i + 1]
            /\ \A i \in 1..Len(events[n]), j \in 1..Len(events[n]) :
                  (/\ i < j
                   /\ events[n][i] = "WentDown"
                   /\ events[n][j] = "WentDown") =>
                      \E m \in (i + 1)..(j - 1) : events[n][m] = "Recovered"

\* A target stayed DOWN over a further failing probe without a second alert,
\* and then recovered.
C4_Witness ==
    \E n \in registry :
        \E i \in 1..Len(events[n]) :
            /\ i + 2 <= Len(events[n])
            /\ events[n][i] = "WentDown"
            /\ ~outcomes[n][i + 1] /\ events[n][i + 1] = "-"
            /\ events[n][i + 2] = "Recovered"

\* C5: the downtime carried by a Recovered alert is the time between the
\* preceding transition to DOWN (the prior last_status_change) and the
\* recovery.
C5_DowntimeSinceDown ==
    \A k \in tasks :
        k.alert = "Recovered" => k.downtime = k.at - k.prior_change

\* C6: a successful probe applied to a target that is already UP.
SuccessOnUp(n) ==
    /\ targets[n].status = "UP"
    /\ Applied(n)
    /\ Last(outcomes'[n])

\* C6 as stated: no alert, and status, consecutive_failures and
\* last_status_change are all left unchanged.
C6_Original ==
    [][\A n \in registry :
          SuccessOnUp(n) =>
              /\ Last(events'[n]) = "-"
              /\ targets'[n].status = targets[n].status
              /\ targets'[n].consecutive_failures = targets[n].consecutive_failures
              /\ targets'[n].last_status_change = targets[n].last_status_change]_vars

\* C6 as amended: no alert, status stays UP, last_status_change is unchanged
\* and consecutive_failures is 0 afterwards (so a repetition changes none of
\* the three).
C6_Amended ==
    [][\A n \in registry :
          SuccessOnUp(n) =>
              /\ Last(events'[n]) = "-"
              /\ targets'[n].status = "UP"
              /\ targets'[n].consecutive_failures = 0
              /\ targets'[n].last_status_change = targets[n].last_status_change
              /\ targets[n].consecutive_failures = 0 =>
                    targets'[n].consecutive_failures = targets[n].consecutive_failures]_vars

\* A success was applied to an UP target that had one failure counted, and
\* then a second success in a row.
C6_Witness ==
    \E n \in registry :
        /\ outcomes[n] = <<TRUE, FALSE, TRUE, TRUE>>
        /\ events[n] = <<"-", "-", "-", "-">>
        /\ targets[n].status = "UP"
        /\ targets[n].consecutive_failures = 0

\* C7: last_status_change changes only in a probe application that takes the
\* status from UNKNOWN or UP to DOWN, or from DOWN to UP.
C7_StampOnlyOnTransition ==
    [][\A n \in registry :
          targets'[n].last_status_change # targets[n].last_status_change =>
              /\ Applied(n)
              /\ \/ targets[n].status \in {"UNKNOWN", "UP"} /\ targets'[n].status = "DOWN"
                 \/ targets[n].status = "DOWN" /\ targets'[n].status = "UP"]_vars

\* A probe was applied after the last transition and left the stamp alone.
C7_Witness ==
    \E n \in registry :
        /\ targets[n].last_status_change # NoneTime
        /\ targets[n].last_check > targets[n].last_status_change

\* C8: run-once mode makes one tick, probing each target once, then sends one
\* report if a target is DOWN and none otherwise, and returns.
C8_RunOnce ==
    RUN_ONCE =>
        /\ ticks <= 1
        /\ \A n \in registry : probes[n] = ticks
        /\ pc \in {"start", "gather", "report", "returned"}
        /\ pc \in {"start", "gather"} => reports = 0
        /\ pc \in {"report", "returned"} =>
              /\ ticks = 1
              /\ \A k \in tasks : k.pc \in Finished
              /\ reports = IF \E n \in registry : targets[n].status = "DOWN"
                           THEN 1 ELSE 0

\* start() has returned after a tick in which a probe failed: no target is
\* DOWN and no report was sent.
C8_Witness ==
    /\ RUN_ONCE
    /\ pc = "returned"
    /\ reports = 0
    /\ \E n \in registry : targets[n].consecutive_failures = 1
    /\ \A n \in registry : probes[n] = 1

\* A probe that only resolved by timing out.
TimedOut(k) ==
    /\ k.pc = "done"
    /\ targets[k.tgt].last_check = k.at
    /\ targets[k.tgt].error_message \in {"Ping timeout", "HTTP timeout"}

\* C9: run_checks never raises, and when it has completed a tick in which
\* the check of one target raised or timed out, every other target was
\* probed in that tick, its result was applied to its own state, and its
\* alert was sent.
C9_Isolation ==
    /\ pc \notin {"retry", "raised"}
    /\ pc \in {"sleep", "report", "returned"} =>
          \A bad \in {k \in tasks : k.tick = ticks /\ (k.pc = "raised" \/ TimedOut(k))} :
              \A n \in registry \ {bad.tgt} :
                  \E k \in tasks :
                      /\ k.tgt = n /\ k.tick = ticks /\ k.pc \in Finished
                      /\ k.pc = "done" =>
                            /\ targets[n].last_check = k.at
                            /\ Last(outcomes[n]) = (k.is_up = "yes")
                            /\ Last(events[n]) = k.alert
                            /\ k.alert = RefEvent(outcomes[n], Len(outcomes[n]))
                            /\ k.alert # "-" => k.delivered # "pending"

\* A tick has completed in which one check raised while the other target
\* timed out, went DOWN and had its alert delivered.
C9_Witness ==
    /\ pc = "sleep"
    /\ \E bad \in tasks, k \in tasks :
          /\ bad.tick = ticks /\ bad.pc = "raised"
          /\ k.tick = ticks /\ k.tgt # bad.tgt
          /\ TimedOut(k)
          /\ k.alert = "WentDown" /\ k.delivered = "yes"

\* C10: at most one check_target per target is in flight.
C10_NoOverlap ==
    \A n \in registry :
        Cardinality({k \in tasks : k.tgt = n /\ k.pc \in Active}) <= 1

\* A later tick of the continuous loop is in flight: one target's alert is
\* being delivered and the other's probe has not resolved.
C10_Witness ==
    /\ ~RUN_ONCE
    /\ ticks >= 2
    /\ \E k \in tasks, j \in tasks :
          /\ k.tick = ticks /\ j.tick = ticks
          /\ k.pc = "alert" /\ j.pc = "probe"

\* The check_target of the same target and tick, after the step.
Same(k, k2) == k2.tgt = k.tgt /\ k2.tick = k.tick

\* C11: a failed delivery ends the check_target without a retry and without
\* touching the target state or the alert history, and every later probe is
\* alerted according to the reference trace, whatever was delivered before.
C11_Step ==
    /\ \A k \in tasks, k2 \in tasks' :
          (k.pc = "alert" /\ Same(k, k2) /\ k2.delivered = "no") =>
              /\ k2.pc = "done"
              /\ targets' = targets
              /\ events' = events
              /\ outcomes' = outcomes
    /\ \A n \in registry :
          Applied(n) =>
              Last(events'[n]) = RefEvent(outcomes'[n], Len(outcomes'[n]))

C11_FailedDeliveryIsInert == [][C11_Step]_vars

\* The delivery of a WentDown alert has failed and the target is still DOWN
\* with its counter at the threshold.
C11_Witness ==
    \E k \in tasks :
        /\ k.pc = "done" /\ k.alert = "WentDown" /\ k.delivered = "no"
        /\ targets[k.tgt].status = "DOWN"
        /\ targets[k.tgt].consecutive_failures >= CONSECUTIVE_FAILURES
        /\ targets[k.tgt].last_status_change = k.at

\* C14 as stated: while a probe of the tick is unresolved, no result of that
\* tick has been applied and no alert of it has been sent.
C14_Original ==
    \A k \in tasks, j \in tasks :
        (k.tick = j.tick /\ j.pc = "probe") => k.pc = "probe"

\* C14 as amended: a result is applied (and its alert sent) in the step in
\* which the target's own probe returns, whatever the other probes of the
\* tick are doing; only the completion of the tick waits for all of them.
C14_Step ==
    /\ \A k \in tasks, k2 \in tasks' :
          (k.pc = "probe" /\ Same(k, k2) /\ k2.pc \in {"alert", "done"}) =>
              /\ Applied(k.tgt)
              /\ targets'[k.tgt].last_check = now
              /\ Last(events'[k.tgt]) = k2.alert
              /\ \A j \in tasks : j # k => j \in tasks'
    /\ (pc = "gather" /\ pc' # "gather") =>
          \A k \in tasks : k.tick = ticks => k.pc \in Finished

C14_Amended == [][C14_Step]_vars

\* One target's result has been applied and its alert is out while the
\* other target's probe of the same tick is unresolved.
C14_Witness ==
    \E k \in tasks, j \in tasks :
        /\ k.tick = j.tick /\ k.tgt # j.tgt
        /\ k.pc = "done" /\ k.alert = "Recovered" /\ k.delivered = "yes"
        /\ targets[k.tgt].last_check = k.at
        /\ j.pc = "probe"

\* A step of the continuous loop that starts the next tick after a tick that
\* has completed.
NextTickStarts == pc = "sleep" /\ ticks' = ticks + 1

C19_RunOnceNeverDown ==
    RUN_ONCE =>
        /\ \A n \in registry :
              /\ targets[n].status # "DOWN"
              /\ \A i \in 1..Len(events[n]) : events[n][i] = "-"
        /\ \A k \in tasks : k.alert = "-"
        /\ reports = 0
        /\ pc # "report"

\* start() has returned from a run-once tick in which every probe failed.
C19_Witness ==
    /\ RUN_ONCE
    /\ pc = "returned"
    /\ \A n \in registry :
          /\ outcomes[n] = <<FALSE>>
          /\ targets[n].consecutive_failures = 1
          /\ targets[n].status = "UNKNOWN"

\* C20: an alert is in delivery only while start() awaits the gather of the
\* alert's own tick, so no alert of an earlier tick is pending once a later
\* tick has started, and the next tick starts no earlier than the end of the
\* last delivery plus the sleep.
C20_AlertsInsideTick ==
    /\ \A k \in tasks :
          k.pc = "alert" => (k.tick = ticks /\ pc = "gather")
    /\ \A k \in tasks :
          (k.tick = ticks /\ pc = "sleep" /\ k.alert # "-") =>
              (k.delivered \in {"yes", "no"} /\ now >= k.at)

\* A tick has completed after an alert whose delivery took TIMEOUT seconds.
C20_Witness ==
    /\ pc = "sleep"
    /\ \E k \in tasks :
          /\ k.tick = ticks
          /\ k.alert = "WentDown" /\ k.delivered = "yes"
          /\ now = k.at + TIMEOUT

\* check_target has been started i times for target n.
Probed(n, i) == n \in registry /\ probes[n] = i

\* C16: the continuous loop is not ended by an error of a tick: an exception
\* of a check_target never reaches start(), and under fairness every target
\* is probed again after each tick, up to the number of ticks followed.
C16_LoopGoesOn ==
    /\ [](pc \notin {"retry", "raised"})
    /\ \A n \in TargetNames : \A i \in 1..MaxTicksOne :
          (~RUN_ONCE /\ i < TickBound /\ Probed(n, i)) ~> Probed(n, i + 1)

\* Every check_target of a target has raised, tick after tick, and the loop
\* has gone through all the ticks followed.
C16_Witness ==
    /\ ~RUN_ONCE
    /\ ticks = TickBound
    /\ \E n \in registry :
          /\ probes[n] = TickBound
          /\ outcomes[n] = <<>>
          /\ \A k \in tasks : k.tgt = n => k.pc = "raised"

\* The fixed command vocabulary of handle_command.
Vocabulary == {"/status", "/stato", "status", "stato", "/help", "/aiuto", "help"}

\* C12: every notifier call of the command listener answers an update that is
\* a message of the chat TELEGRAM_CHAT_ID whose text, lower-cased and
\* stripped, is in the command vocabulary; an update of another sender or
\* with another text causes no call, so the status reports sent are exactly
\* the report replies.
C12_OnlyAuthorizedCommands ==
    /\ \A i \in DOMAIN replies :
          LET u == updates[replies[i].id]
          IN  /\ u.kind = "message"
              /\ u.chat = TELEGRAM_CHAT_ID
              /\ lower_strip(u.text) \in Vocabulary
    /\ lpc # "off" =>
          reports = Cardinality({i \in DOMAIN replies : replies[i].kind = "report"})

\* The listener has taken a status command of another chat and has gone back
\* to sleep without a notifier call.
C12_Witness ==
    /\ updates # <<>>
    /\ updates[1] = [kind |-> "message", chat |-> "other", text |-> " /STATUS "]
    /\ last_update_id = 1
    /\ lpc = "sleep1"
    /\ replies = <<>>
    /\ reports = 0

\* C13: a status report lists every target exactly once with its status, all
\* DOWN targets before all others and each of the two groups in ascending
\* name order; statuses A:UP, B:DOWN, C:DOWN, D:UP are listed as B, C, A, D.
C13_ReportOrder ==
    reports > 0 =>
        /\ Len(last_report) = Cardinality(registry)
        /\ \A n \in registry :
              Cardinality({i \in DOMAIN last_report : last_report[i].name = n}) = 1
        /\ \A i \in DOMAIN last_report :
              last_report[i].status = targets[last_report[i].name].status
        /\ \A i, j \in DOMAIN last_report :
              i < j =>
                 /\ ~(last_report[i].status # "DOWN" /\ last_report[j].status = "DOWN")
                 /\ (last_report[i].status = "DOWN") = (last_report[j].status = "DOWN")
                       => NameRank(last_report[i].name) < NameRank(last_report[j].name)
        /\ (/\ registry = ReportNames
            /\ targets["A"].status = "UP" /\ targets["B"].status = "DOWN"
            /\ targets["C"].status = "DOWN" /\ targets["D"].status = "UP")
              => [i \in DOMAIN last_report |-> last_report[i].name] = <<"B", "C", "A", "D">>

\* The example of the claim, reported from the list D, C, B, A.
C13_Witness ==
    /\ reports = 1
    /\ target_list = <<"D", "C", "B", "A">>
    /\ last_report = <<[name |-> "B", status |-> "DOWN"], [name |-> "C", status |-> "DOWN"],
                       [name |-> "A", status |-> "UP"], [name |-> "D", status |-> "UP"]>>

\* C17 as stated: when the loop has been cancelled, every check_target of the
\* tick in flight has run to its end.
C17_Original ==
    pc = "cancelled" => \A k \in tasks : k.tick = ticks => k.pc \in Finished

\* C17, amended: once cancellation has arrived no tick is started and the
\* loop has exited at once; the check_target coroutines that were waiting for
\* a probe or for the delivery of an alert are cancelled there, so nothing is
\* waiting, no result is applied and no alert is sent any more.
C17_Amended ==
    /\ [](pc = "cancelled" => \A k \in tasks : k.pc \notin Active)
    /\ [][pc = "cancelled" =>
             /\ pc' = "cancelled"
             /\ UNCHANGED <<ticks, tasks, targets, outcomes, events, probes>>]_vars

\* Cancellation has arrived during the second tick while the DOWN alert was
\* being delivered: the delivery is abandoned.
C17_Witness ==
    /\ pc = "cancelled"
    /\ ticks = 2
    /\ \E k \in tasks :
          /\ k.tick = ticks
          /\ k.pc = "cancelled"
          /\ k.alert = "WentDown"

\* C18: a step of the command listener leaves the registry as it is, fields,
\* membership and order; the fields of a target change only in a step in
\* which check_target applies a probe result to that target.
C18_ListenerOnlyReads ==
    [][/\ <<lpc, last_update_id, batch, replies, last_report>>'
              # <<lpc, last_update_id, batch, replies, last_report>>
          => UNCHANGED <<targets, target_list, registry>>
       /\ targets' # targets =>
             \E n \in registry :
                /\ Applied(n)
                /\ \A m \in registry \ {n} : targets'[m] = targets[m]
       /\ UNCHANGED <<target_list, registry>>]_vars

\* A status report has been sent on command while the scheduler was inside a
\* tick, for a target that is DOWN: the fields check_target wrote are intact.
C18_Witness ==
    /\ lpc = "send"
    /\ replies # <<>>
    /\ Last(replies).kind = "report"
    /\ pc = "gather"
    /\ \E k \in tasks : k.tick = ticks /\ k.pc \in Active
    /\ \E n \in registry :
          /\ targets[n].status = "DOWN"
          /\ targets[n].consecutive_failures = CONSECUTIVE_FAILURES
          /\ targets[n].error_message # ""
          /\ last_report = <<[name |-> n, status |-> "DOWN"]>>

\* C21: the command listener handles each received update at most once: no
\* id is taken twice by the for loop of listen and none is answered twice,
\* last_update_id has reached the id of every update taken, and a step takes
\* only updates whose id is above the last_update_id it started from, so an
\* update whose handling raised is not taken again by a later poll.
C21_HandledAtMostOnce ==
    /\ [](/\ \A i, j \in DOMAIN handled : i # j => handled[i] # handled[j]
          /\ \A i \in DOMAIN handled : handled[i] <= last_update_id
          /\ \A i, j \in DOMAIN replies : i # j => replies[i].id # replies[j].id
          /\ \A i \in DOMAIN replies :
                \E j \in DOMAIN handled : handled[j] = replies[i].id)
    /\ [][\A i \in (Len(handled) + 1)..Len(handled') :
             /\ handled'[i] > last_update_id
             /\ handled'[i] <= last_update_id']_vars

\* The handling of update 1 has raised (a message without a chat); the
\* listener has slept in its except branch, has polled again and has found
\* nothing to handle.
C21_Witness ==
    /\ updates # <<>>
    /\ updates[1].kind = "nochat"
    /\ handled = <<1>>
    /\ last_update_id = 1
    /\ replies = <<>>
    /\ lpc = "sleep1"
    /\ pc # "cancelled"
====
